---- MODULE Spec2Model ----
(***************************************************************************)
(* Model of src/models.py: the parameter/gradient vectorizer               *)
(* (params_to_vec, vec_to_params), the target-network maintainer           *)
(* (create_target_network, update_target_network) and the distributed      *)
(* gradient synchronizer (sync_grads) over an MPI communicator.            *)
(*                                                                         *)
(* Two state machines share the pure operators:                            *)
(*   Spec      one process: a live network, its target network, a flat     *)
(*             vector, and the five utilities applied in any order;        *)
(*   SyncSpec  NumProcs worker processes, each with a private replica,     *)
(*             calling sync_grads; FairSync adds the scheduler's fairness. *)
(***************************************************************************)
EXTENDS Integers, Sequences, FiniteSets, TLC

\* ------------------------------------------------------------------ bounds
\* P, the number of worker processes of the communicator (comm.Get_size()).
NumProcs == 3
\* hidden_size, the constructor argument of every architecture.
HiddenSize == 2
\* Largest finite magnitude of the scaled-down float32: a finite result
\* beyond it overflows to +-inf.
MaxFloat == 5
\* polyak_factor ranges over 0/TauDen, 1/TauDen, ..., TauDen/TauDen.
TauDen == 2
\* Number of utility calls of one behaviour of Spec.
MaxSteps == 2
\* Number of sync_grads calls each worker makes in SyncSpec.
MaxRounds == 2

\* ------------------------------------------------------- float32 elements
\* A tensor element is a float32: a finite number (here an integer of
\* magnitude at most MaxFloat, results rounded to the nearest one), +inf,
\* -inf or NaN. The three special values are encoded just outside the
\* finite range.
Num(n) == n
PosInf == MaxFloat + 1
NegInf == -(MaxFloat + 1)
NaN == MaxFloat + 2

IsNaN(x) == x = NaN
IsInf(x) == x = PosInf \/ x = NegInf
IsFinite(x) == -MaxFloat <= x /\ x <= MaxFloat

\* A finite result outside the representable range overflows to +-inf.
Norm(n) == IF n > MaxFloat THEN PosInf ELSE IF n < -MaxFloat THEN NegInf ELSE Num(n)

\* a / b rounded to the nearest integer (ties away from zero), b > 0.
RoundDiv(a, b) ==
  IF a >= 0 THEN (2 * a + b) \div (2 * b) ELSE -((2 * (-a) + b) \div (2 * b))

\* IEEE addition: NaN is absorbing, inf + (-inf) = NaN.
FAdd(a, b) ==
  IF IsNaN(a) \/ IsNaN(b) THEN NaN
  ELSE IF IsInf(a) /\ IsInf(b) THEN (IF a = b THEN a ELSE NaN)
  ELSE IF IsInf(a) THEN a
  ELSE IF IsInf(b) THEN b
  ELSE Norm(a + b)

\* IEEE multiplication by the scalar num/den >= 0: 0 * inf = NaN.
FScale(num, den, x) ==
  IF IsNaN(x) THEN NaN
  ELSE IF IsInf(x) THEN (IF num = 0 THEN NaN ELSE x)
  ELSE Norm(RoundDiv(num * x, den))

\* IEEE division by the positive integer p.
FDivInt(x, p) ==
  IF IsFinite(x) THEN Num(RoundDiv(x, p)) ELSE x

\* ---------------------------------------------------------------- tensors
\* A shape is <<n>> or <<rows, cols>>; a 1-D tensor is a sequence of
\* elements, a 2-D tensor a sequence of rows. None is the absent gradient.
None == << >>

RECURSIVE Prod(_)
Prod(shape) == IF shape = << >> THEN 1 ELSE Head(shape) * Prod(Tail(shape))

\* param.data.numel()
Numel(shape) == Prod(shape)

\* np.concatenate: the arrays k, k+1, ... of a list one after the other.
RECURSIVE ConcatFrom(_, _)
ConcatFrom(seqs, k) == IF k > Len(seqs) THEN << >> ELSE seqs[k] \o ConcatFrom(seqs, k + 1)
ConcatAll(seqs) == ConcatFrom(seqs, 1)

\* tensor.view(-1): the elements in row-major order.
ViewFlat(t, shape) == IF Len(shape) = 1 THEN t ELSE ConcatAll(t)

\* Faulty variant: a column-major reshape.
ViewAsColumnMajor(flat, shape) ==
  IF Len(shape) = 1 THEN flat
  ELSE [r \in 1..shape[1] |-> [c \in 1..shape[2] |-> flat[(c - 1) * shape[1] + r]]]

\* flat.view_as(param.data): the row-major reshape of a flat tensor.
ViewAs(flat, shape) ==
  IF Len(shape) = 1 THEN flat
  ELSE [r \in 1..shape[1] |-> [c \in 1..shape[2] |-> flat[(r - 1) * shape[2] + c]]]

\* numpy's vec[lo:hi] with 0-based lo <= hi: clamped to the vector, never an error.
Min(a, b) == IF a <= b THEN a ELSE b
Slice(vec, lo, hi) ==
  LET l == Min(lo, Len(vec))
      h == Min(hi, Len(vec))
  IN [i \in 1..(h - l) |-> vec[l + i]]

\* The coordinates of a tensor of the given shape, and the element at one.
Coords(shape) ==
  IF Len(shape) = 1 THEN {<<i>> : i \in 1..shape[1]}
  ELSE {<<r, c>> : r \in 1..shape[1], c \in 1..shape[2]}
At(t, ix) == IF Len(ix) = 1 THEN t[ix[1]] ELSE t[ix[1]][ix[2]]
\* The 0-based row-major position of a coordinate.
FlatPos(shape, ix) == IF Len(ix) = 1 THEN ix[1] - 1 ELSE (ix[1] - 1) * shape[2] + (ix[2] - 1)

\* ---------------------------------------------------------- architectures
\* nn.Linear(in, out): weight [out, in], then bias [out].
Linear(in, out) == << <<out, in>>, <<out>> >>
\* nn.LayerNorm(h): weight [h], then bias [h].
LayerNorm(h) == << <<h>>, <<h>> >>
OptLayerNorm(h, layer_norm) == IF layer_norm THEN LayerNorm(h) ELSE << >>
\* The Sequential of every class: Linear, (LayerNorm), Tanh, Linear, (LayerNorm), Tanh, Linear.
Layers(in, h, out, layer_norm) ==
  Linear(in, h) \o OptLayerNorm(h, layer_norm) \o Linear(h, h)
    \o OptLayerNorm(h, layer_norm) \o Linear(h, out)

\* parameters() yields a module's own parameters before its children's.
ActorShapes(h, stochastic, layer_norm) ==
  (IF stochastic THEN << <<1, 1>> >> ELSE << >>) \o Layers(3, h, 1, layer_norm)
SoftActorShapes(h) == Layers(3, h, 2, FALSE)
CriticShapes(h, state_action, layer_norm) ==
  Layers(3 + (IF state_action THEN 1 ELSE 0), h, 1, layer_norm)
ActorCriticShapes(h) == ActorShapes(h, TRUE, FALSE) \o CriticShapes(h, FALSE, FALSE)
DQNShapes(h, num_actions) == Layers(3, h, num_actions, FALSE)

Archs == {"Actor", "ActorDet", "ActorLN", "SoftActor", "Critic", "CriticSALN", "ActorCritic", "DQN"}
ShapesOf(a) ==
  CASE a = "Actor" -> ActorShapes(HiddenSize, TRUE, FALSE)
    [] a = "ActorDet" -> ActorShapes(HiddenSize, FALSE, FALSE)
    [] a = "ActorLN" -> ActorShapes(HiddenSize, TRUE, TRUE)
    [] a = "SoftActor" -> SoftActorShapes(HiddenSize)
    [] a = "Critic" -> CriticShapes(HiddenSize, FALSE, FALSE)
    [] a = "CriticSALN" -> CriticShapes(HiddenSize, TRUE, TRUE)
    [] a = "ActorCritic" -> ActorCriticShapes(HiddenSize)
    [] a = "DQN" -> DQNShapes(HiddenSize, 5)

RECURSIVE SumNumel(_)
SumNumel(shapes) == IF shapes = << >> THEN 0 ELSE Numel(Head(shapes)) + SumNumel(Tail(shapes))

\* ------------------------------------------------------------ input values
\* Largest magnitude of a generated finite element.
GenMax == 2

\* Element i of the generated sequence of a seed: a seed > 0 yields finite
\* values only, a seed <= 0 also +-inf and NaN (a diverged network).
GenElem(seed, i) ==
  IF seed <= 0 /\ i % 4 = 0 THEN PosInf
  ELSE IF seed <= 0 /\ i % 4 = 1 THEN NaN
  ELSE IF seed <= 0 /\ i % 4 = 2 THEN NegInf
  ELSE Num(((seed * i + (i \div 2) + seed) % (2 * GenMax + 1)) - GenMax)
GenVec(seed, n) == [i \in 1..n |-> GenElem(seed, i)]

\* A tensor of a shape whose row-major elements are from..from+numel-1 of a seed.
GenTensor(seed, shape, from) ==
  IF Len(shape) = 1 THEN [i \in 1..shape[1] |-> GenElem(seed, from + i)]
  ELSE [r \in 1..shape[1] |-> [c \in 1..shape[2] |-> GenElem(seed, from + (r - 1) * shape[2] + c)]]

\* --------------------------------------------------------------- modules
\* A heap of nn.Parameter objects: shape, data (value buffer), grad
\* (gradient buffer or None) and requires_grad. A module is the sequence of
\* the addresses that parameters() enumerates.
Modes == {"params", "grads"}

Param(shape, data, grad, rg) == [shape |-> shape, data |-> data, grad |-> grad, requires_grad |-> rg]

\* The parameters of a freshly built and trained module of an architecture.
NewParams(shapes, dseed, gseed, has_grad, rg) ==
  [k \in 1..Len(shapes) |->
     LET off == SumNumel(SubSeq(shapes, 1, k - 1))
     IN Param(shapes[k], GenTensor(dseed, shapes[k], off),
              IF has_grad THEN GenTensor(gseed, shapes[k], off) ELSE None, rg)]

AddrsFrom(base, n) == [k \in 1..n |-> base + k]

\* attr = 'data' if mode == 'params' else 'grad'; getattr(param, attr)
Buffer(p, mode) == IF mode = "params" THEN p.data ELSE p.grad
\* Faulty variant: the value buffer written whatever the mode.
SetBufferData(p, mode, t) == [p EXCEPT !.data = t]
SetBuffer(p, mode, t) == IF mode = "params" THEN [p EXCEPT !.data = t] ELSE [p EXCEPT !.grad = t]

ShapesOfNet(h, net) == [k \in 1..Len(net) |-> h[net[k]].shape]
TotalNumel(h, net) == SumNumel(ShapesOfNet(h, net))

\* ------------------------------------------------- create_target_network
\* Faulty variant: a shallow copy, the module's Parameter objects shared.
ShallowCopy(h, net) == [heap |-> h, net |-> net]

\* copy.deepcopy(network): new Parameter objects with cloned data and the
\* source's requires_grad; Parameter.__deepcopy__ does not copy grad.
DeepCopy(h, net) ==
  [heap |-> h \o [k \in 1..Len(net) |-> [h[net[k]] EXCEPT !.grad = None]],
   net |-> AddrsFrom(Len(h), Len(net))]

\* for param in target_network.parameters(): param.requires_grad = False
RECURSIVE FreezeLoop(_, _, _)
FreezeLoop(h, net, k) ==
  IF k > Len(net) THEN h
  ELSE FreezeLoop([h EXCEPT ![net[k]].requires_grad = FALSE], net, k + 1)

CreateTargetNetwork(h, net) ==
  LET c == DeepCopy(h, net)
  IN [heap |-> FreezeLoop(c.heap, c.net, 1), net |-> c.net]

\* ------------------------------------------------- update_target_network
\* Faulty variant: the two weights exchanged.
PolyakSwapped(tau, t, s) == FAdd(FScale(tau, TauDen, s), FScale(TauDen - tau, TauDen, t))

\* polyak_factor * target_param.data + (1 - polyak_factor) * param.data, for
\* polyak_factor = tau / TauDen, on one element.
Polyak(tau, t, s) == FAdd(FScale(tau, TauDen, t), FScale(TauDen - tau, TauDen, s))

PolyakTensor(tau, tt, st, shape) ==
  IF Len(shape) = 1 THEN [i \in 1..shape[1] |-> Polyak(tau, tt[i], st[i])]
  ELSE [r \in 1..shape[1] |-> [c \in 1..shape[2] |-> Polyak(tau, tt[r][c], st[r][c])]]

\* for param, target_param in zip(...): target_param.data = ...
RECURSIVE UpdateLoop(_, _, _, _, _)
UpdateLoop(h, net, tnet, tau, k) ==
  IF k > Min(Len(net), Len(tnet)) THEN h
  ELSE LET tp == h[tnet[k]]
           sp == h[net[k]]
       IN UpdateLoop([h EXCEPT ![tnet[k]].data = PolyakTensor(tau, tp.data, sp.data, tp.shape)],
                     net, tnet, tau, k + 1)

\* Faulty variant: the first pair of parameters skipped.
UpdateSkipsFirst(h, net, tnet, tau) == UpdateLoop(h, net, tnet, tau, 2)

UpdateTargetNetwork(h, net, tnet, tau) == UpdateLoop(h, net, tnet, tau, 1)

\* ---------------------------------------------------------- params_to_vec
\* Faulty variant: the value buffers flattened whatever the mode.
ParamsToVecData(h, net, mode) ==
  [err |-> "none",
   vec |-> ConcatAll([k \in 1..Len(net) |-> ViewFlat(h[net[k]].data, h[net[k]].shape)])]

\* np.concatenate([getattr(param, attr).detach().view(-1).numpy() ...]): a
\* fresh array; a parameter without a gradient raises AttributeError.
ParamsToVec(h, net, mode) ==
  IF \E k \in 1..Len(net) : Buffer(h[net[k]], mode) = None
  THEN [err |-> "AttributeError", vec |-> << >>]
  ELSE [err |-> "none",
        vec |-> ConcatAll([k \in 1..Len(net) |-> ViewFlat(Buffer(h[net[k]], mode), h[net[k]].shape)])]

\* ---------------------------------------------------------- vec_to_params
\* The loop over network.parameters(): each parameter takes the slice
\* vec[param_pointer:param_pointer + numel]; view_as raises RuntimeError
\* when the slice holds fewer elements than the parameter. What was copied
\* before the exception stays copied. copy_ never changes a shape, so
\* numel is read from h0, the heap the call started with.
RECURSIVE VecToParamsLoop(_, _, _, _, _, _, _)
VecToParamsLoop(vec, h0, h, net, mode, k, param_pointer) ==
  IF k > Len(net) THEN [heap |-> h, param_pointer |-> param_pointer, err |-> "none"]
  ELSE IF Buffer(h[net[k]], mode) = None
  THEN [heap |-> h, param_pointer |-> param_pointer, err |-> "AttributeError"]
  ELSE IF Len(Slice(vec, param_pointer, param_pointer + Numel(h0[net[k]].shape))) # Numel(h0[net[k]].shape)
  THEN [heap |-> h, param_pointer |-> param_pointer, err |-> "RuntimeError"]
  ELSE VecToParamsLoop(
         vec, h0,
         [h EXCEPT ![net[k]] =
            SetBuffer(@, mode, ViewAs(Slice(vec, param_pointer, param_pointer + Numel(@.shape)), @.shape))],
         net, mode, k + 1, param_pointer + Numel(h0[net[k]].shape))

\* Faulty variant: the length of the vector checked before anything is copied.
VecToParamsChecked(vec, h, net, mode) ==
  IF Len(vec) # TotalNumel(h, net)
  THEN [heap |-> h, param_pointer |-> 0, err |-> "IndexError"]
  ELSE VecToParamsLoop(vec, h, h, net, mode, 1, 0)

VecToParams(vec, h, net, mode) == VecToParamsLoop(vec, h, h, net, mode, 1, 0)

\* ------------------------------------------------------------- sync_grads
\* comm.Allreduce(send, recv, op=MPI.SUM): the element-wise sum of the
\* contributions, folded in rank order.
RECURSIVE FoldAdd(_, _, _)
FoldAdd(contribs, i, q) ==
  IF q = 1 THEN contribs[1][i] ELSE FAdd(FoldAdd(contribs, i, q - 1), contribs[q][i])
ReduceSum(contribs) ==
  [i \in 1..Len(contribs[1]) |-> FoldAdd(contribs, i, Len(contribs))]

\* Faulty variant: the division by the number of processes forgotten.
VecNotDivided(v, size) == v

\* grad_vec_recv / comm.Get_size()
VecDiv(v, size) == [i \in 1..Len(v) |-> FDivInt(v[i], size)]

\* Line 123: the averaged vector written back into the gradient buffers.
WriteBack(recv, size, h, net) == VecToParams(VecDiv(recv, size), h, net, "grads")

\* The whole of sync_grads as one process sees it: others is the reduction
\* of the other ranks' contributions, this process being the last rank.
SyncGradsLocal(h, net, others, size) ==
  LET send == ParamsToVec(h, net, "grads")
  IN IF send.err # "none"
     THEN [heap |-> h, param_pointer |-> 0, err |-> send.err]
     ELSE WriteBack(ReduceSum(<<others, send.vec>>), size, h, net)

\* ------------------------------------------------------------------ state
VARIABLES
  heap,           \* Spec: the process's Parameter objects
  network,        \* Spec: the live module (addresses into heap)
  target,         \* Spec: the target module, << >> before it is created
  vec,            \* Spec: the flat vector last returned by params_to_vec
  err,            \* Spec: the exception the last call raised, or "none"
  param_pointer,  \* Spec: vec_to_params's read pointer when it last ended
  last,           \* Spec: the last call, its arguments and the heap before it
  steps,          \* Spec: number of calls made
  pheap,          \* SyncSpec: each worker's private heap
  pnet,           \* SyncSpec: the replicas' module (the same addresses in each heap)
  pc,             \* SyncSpec: each worker's position in sync_grads
  calls,          \* SyncSpec: number of sync_grads calls each worker returned from
  sent,           \* SyncSpec: per worker, the vectors contributed to each all-reduce
  got,            \* SyncSpec: per worker, the vectors received from each all-reduce
  pre,            \* SyncSpec: each worker's heap when it entered its current call
  pheap0          \* SyncSpec: each worker's heap at the start

localVars == <<heap, network, target, vec, err, param_pointer, last, steps>>
syncVars == <<pheap, pnet, pc, calls, sent, got, pre, pheap0>>
vars == <<heap, network, target, vec, err, param_pointer, last, steps,
          pheap, pnet, pc, calls, sent, got, pre, pheap0>>

Procs == 1..NumProcs

\* ------------------------------------------------------------------- Spec
\* The states a training process can be in when the utilities are called:
\* a network before or after its first backward pass, finite or diverged,
\* with or without a target network that has drifted from it.
InitScenarios ==
  { [dseed |-> 1, gseed |-> 3, has_grad |-> FALSE, has_target |-> FALSE, tseed |-> 1],
    [dseed |-> 1, gseed |-> 3, has_grad |-> TRUE, has_target |-> TRUE, tseed |-> 2],
    [dseed |-> 0, gseed |-> 3, has_grad |-> TRUE, has_target |-> TRUE, tseed |-> 2],
    [dseed |-> 1, gseed |-> 0, has_grad |-> TRUE, has_target |-> TRUE, tseed |-> 0] }
\* Every architecture starts trained and finite with a drifted target; two
\* of them also start in the other scenarios.
ScenariosOf(a) ==
  IF a \in {"Actor", "CriticSALN"} THEN InitScenarios
  ELSE {sc \in InitScenarios : sc.dseed = 1 /\ sc.tseed = 2}

NoCall == [op |-> "init", which |-> "net", mode |-> "params", tau |-> 0,
           input |-> << >>, pre |-> << >>, ptarget |-> << >>]

SyncIdle ==
  /\ pheap = << >> /\ pnet = << >> /\ pc = << >> /\ calls = << >>
  /\ sent = << >> /\ got = << >> /\ pre = << >> /\ pheap0 = << >>

Init ==
  /\ \E a \in Archs : \E sc \in ScenariosOf(a) :
       LET shapes == ShapesOf(a)
           n == Len(shapes)
       IN /\ heap = NewParams(shapes, sc.dseed, sc.gseed, sc.has_grad, TRUE)
                      \o (IF sc.has_target
                          THEN NewParams(shapes, sc.tseed, sc.tseed, FALSE, FALSE)
                          ELSE << >>)
          /\ network = AddrsFrom(0, n)
          /\ target = IF sc.has_target THEN AddrsFrom(n, n) ELSE << >>
  /\ vec = << >>
  /\ err = "none"
  /\ param_pointer = 0
  /\ last = NoCall
  /\ steps = 0
  /\ SyncIdle

Net(which) == IF which = "net" THEN network ELSE target
Whiches == IF target = << >> THEN {"net"} ELSE {"net", "target"}

Call(op, which, mode, tau, input) ==
  [op |-> op, which |-> which, mode |-> mode, tau |-> tau,
   input |-> input, pre |-> heap, ptarget |-> target]

\* target_network = create_target_network(network)
CreateTarget ==
  /\ steps < MaxSteps
  /\ LET r == CreateTargetNetwork(heap, network)
     IN /\ heap' = r.heap
        /\ target' = r.net
  /\ err' = "none"
  /\ last' = Call("create", "net", "params", 0, << >>)
  /\ steps' = steps + 1
  /\ UNCHANGED <<network, vec, param_pointer>>
  /\ UNCHANGED syncVars

\* update_target_network(network, target_network, tau / TauDen)
UpdateTarget(tau) ==
  /\ steps < MaxSteps
  /\ target # << >>
  /\ heap' = UpdateTargetNetwork(heap, network, target, tau)
  /\ err' = "none"
  /\ last' = Call("update", "target", "params", tau, << >>)
  /\ steps' = steps + 1
  /\ UNCHANGED <<network, target, vec, param_pointer>>
  /\ UNCHANGED syncVars

\* vec = params_to_vec(module, mode)
ParamsToVecStep(which, mode) ==
  /\ steps < MaxSteps
  /\ LET r == ParamsToVec(heap, Net(which), mode)
     IN /\ err' = r.err
        /\ vec' = IF r.err = "none" THEN r.vec ELSE vec
  /\ last' = Call("params_to_vec", which, mode, 0, << >>)
  /\ steps' = steps + 1
  /\ UNCHANGED <<heap, network, target, param_pointer>>
  /\ UNCHANGED syncVars

\* The vectors a caller passes to vec_to_params: the one params_to_vec
\* returned, or one it built, of the right length, one short or one long.
InputVecs ==
  LET total == TotalNumel(heap, network)
  IN (IF vec # << >> THEN {vec} ELSE {})
       \cup {GenVec(4, total - 1), GenVec(4, total), GenVec(4, total + 1)}

\* vec_to_params(v, module, mode)
VecToParamsStep(v, which, mode) ==
  /\ steps < MaxSteps
  /\ LET r == VecToParams(v, heap, Net(which), mode)
     IN /\ heap' = r.heap
        /\ err' = r.err
        /\ param_pointer' = r.param_pointer
  /\ last' = Call("vec_to_params", which, mode, 0, v)
  /\ steps' = steps + 1
  /\ UNCHANGED <<network, target, vec>>
  /\ UNCHANGED syncVars

\* sync_grads(comm, network), the other workers' contributions given
SyncGradsStep(others) ==
  /\ steps < MaxSteps
  /\ LET r == SyncGradsLocal(heap, network, others, NumProcs)
     IN /\ heap' = r.heap
        /\ err' = r.err
        /\ param_pointer' = r.param_pointer
  /\ last' = Call("sync_grads", "net", "grads", 0, others)
  /\ steps' = steps + 1
  /\ UNCHANGED <<network, target, vec>>
  /\ UNCHANGED syncVars

Next ==
  \/ CreateTarget
  \/ \E tau \in 0..TauDen : UpdateTarget(tau)
  \/ \E which \in Whiches, mode \in Modes : ParamsToVecStep(which, mode)
  \/ \E v \in InputVecs, which \in Whiches, mode \in Modes : VecToParamsStep(v, which, mode)
  \/ \E seed \in {5} : SyncGradsStep(GenVec(seed, TotalNumel(heap, network)))

Spec == Init /\ [][Next]_vars

\* --------------------------------------------------------------- SyncSpec
\* NumProcs workers, each with a private replica of one architecture whose
\* gradients its own minibatch produced. A worker outside sync_grads is
\* "idle"; inside it is blocked in comm.Allreduce ("allreduce") or has the
\* reduced vector and is about to write it back ("received"). A worker that
\* stalls or crashes before the call is "stalled" for good.
SyncArchs == {"Actor", "CriticSALN", "DQN"}

SyncScenarios ==
  { [same_data |-> TRUE, base |-> 1, stride |-> 1, diverged |-> 0],
    [same_data |-> TRUE, base |-> 2, stride |-> 3, diverged |-> 1],
    [same_data |-> FALSE, base |-> 0, stride |-> 2, diverged |-> 0] }
DataSeedOf(sc, p) == IF sc.same_data THEN 1 ELSE p
GradSeedOf(sc, p) == IF sc.diverged = p THEN 0 ELSE sc.base + p * sc.stride

LocalIdle ==
  /\ heap = << >> /\ network = << >> /\ target = << >> /\ vec = << >>
  /\ err = "none" /\ param_pointer = 0 /\ last = NoCall /\ steps = 0

SyncInit ==
  /\ \E a \in SyncArchs, sc \in SyncScenarios :
       /\ pheap = [p \in Procs |->
                     NewParams(ShapesOf(a), DataSeedOf(sc, p), GradSeedOf(sc, p), TRUE, TRUE)]
       /\ pnet = AddrsFrom(0, Len(ShapesOf(a)))
  /\ pheap0 = pheap
  /\ pre = pheap
  /\ pc = [p \in Procs |-> "idle"]
  /\ calls = [p \in Procs |-> 0]
  /\ sent = [p \in Procs |-> << >>]
  /\ got = [p \in Procs |-> << >>]
  /\ LocalIdle

\* Faulty variant: the all-reduce completes when all ranks but one have contributed.
AllButOneContributed(round) ==
  Cardinality({q \in Procs : Len(sent[q]) >= round}) >= NumProcs - 1
\* Faulty variant: the all-reduce waits for one contribution more than there are ranks.
OneTooManyContributed(round) ==
  Cardinality({q \in Procs : Len(sent[q]) >= round}) >= NumProcs + 1

\* The all-reduce of a round completes once every rank has contributed.
AllContributed(round) == \A q \in Procs : Len(sent[q]) >= round

\* What rank q adds to the reduction of a round (nothing before it has
\* contributed: the receive buffer starts as np.zeros_like(grad_vec_send)).
Contribution(q, round, len) ==
  IF Len(sent[q]) >= round THEN sent[q][round] ELSE [i \in 1..len |-> Num(0)]

\* grad_vec_recv of a round: the sum over all ranks of grad_vec_send.
Allreduce(round, len) == ReduceSum([q \in Procs |-> Contribution(q, round, len)])

\* The control part of each step of worker p: where the step is taken and
\* where it leaves the worker.
EnterCtl(p) ==
  /\ pc[p] = "idle"
  /\ calls[p] < MaxRounds
  /\ pc' = [pc EXCEPT ![p] = "allreduce"]
ReceiveCtl(p) ==
  /\ pc[p] = "allreduce"
  /\ AllContributed(Len(sent[p]))
  /\ pc' = [pc EXCEPT ![p] = "received"]
ReturnCtl(p) ==
  /\ pc[p] = "received"
  /\ pc' = [pc EXCEPT ![p] = "idle"]

\* Lines 120-122: flatten the local gradients and enter comm.Allreduce.
Enter(p) ==
  /\ EnterCtl(p)
  /\ LET send == ParamsToVec(pheap[p], pnet, "grads")
     IN /\ send.err = "none"
        /\ sent' = [sent EXCEPT ![p] = Append(@, send.vec)]
  /\ pre' = [pre EXCEPT ![p] = pheap[p]]
  /\ UNCHANGED <<pheap, pnet, calls, got, pheap0>>
  /\ UNCHANGED localVars

\* Line 122: comm.Allreduce returns with the reduced vector.
Receive(p) ==
  /\ ReceiveCtl(p)
  /\ LET round == Len(sent[p])
     IN got' = [got EXCEPT ![p] = Append(@, Allreduce(round, Len(sent[p][round])))]
  /\ UNCHANGED <<pheap, pnet, calls, sent, pre, pheap0>>
  /\ UNCHANGED localVars

\* Line 123: divide by comm.Get_size(), write back, return.
Return(p) ==
  /\ ReturnCtl(p)
  /\ pheap' = [pheap EXCEPT ![p] = WriteBack(got[p][Len(got[p])], NumProcs, pheap[p], pnet).heap]
  /\ calls' = [calls EXCEPT ![p] = @ + 1]
  /\ UNCHANGED <<pnet, sent, got, pre, pheap0>>
  /\ UNCHANGED localVars

\* A worker stalls or crashes before it calls sync_grads.
Stall(p) ==
  /\ pc[p] = "idle"
  /\ calls[p] < MaxRounds
  /\ pc' = [pc EXCEPT ![p] = "stalled"]
  /\ UNCHANGED <<pheap, pnet, calls, sent, got, pre, pheap0>>
  /\ UNCHANGED localVars

SyncNext ==
  \/ \E p \in Procs : Enter(p)
  \/ \E p \in Procs : Receive(p)
  \/ \E p \in Procs : Return(p)
  \/ \E p \in Procs : Stall(p)

SyncSpec == SyncInit /\ [][SyncNext]_vars

\* Every worker is a process of its own that the operating system keeps
\* running: a step of a worker that stays possible is eventually taken.
\* Nothing obliges a worker not to stall. A step of worker p is Enter(p),
\* Receive(p) or Return(p) exactly when it changes pc as the step's control
\* part says, and is possible exactly when the control part is, so the
\* fairness of each step is stated on its control part.
FairSync ==
  /\ SyncInit /\ [][SyncNext]_vars
  /\ \A p \in Procs : WF_pc(EnterCtl(p)) /\ WF_pc(ReceiveCtl(p)) /\ WF_pc(ReturnCtl(p))

\* ============================================================ properties
\* The 0-based position in a module's flat vector where parameter k starts.
Offset(h, net, k) == SumNumel(SubSeq(ShapesOfNet(h, net), 1, k - 1))
Params(net) == 1..Len(net)
AllFinite(h, net) ==
  \A k \in Params(net) : \A ix \in Coords(h[net[k]].shape) : IsFinite(At(h[net[k]].data, ix))
HasBuffers(h, net, mode) == \A k \in Params(net) : Buffer(h[net[k]], mode) # None
DataOf(h, net) == [k \in Params(net) |-> h[net[k]].data]
GradOf(h, net) == [k \in Params(net) |-> h[net[k]].grad]

\* The sum over ranks 1..q, in rank order, of the gradient element (k, ix)
\* that each worker held when it entered its current call.
RECURSIVE RankSum(_, _, _)
RankSum(q, k, ix) ==
  IF q = 1 THEN At(pre[1][pnet[k]].grad, ix)
  ELSE FAdd(RankSum(q - 1, k, ix), At(pre[q][pnet[k]].grad, ix))

AllReturned(r) == \A p \in Procs : pc[p] = "idle" /\ calls[p] = r

\* C1: once all NumProcs workers have returned from their r-th sync_grads,
\* every gradient element of every worker is the sum of the workers'
\* pre-call elements divided by NumProcs, so all workers hold the same
\* gradients, whatever the order in which they entered the call.
C1_SyncGradsMean ==
  \A r \in 1..MaxRounds :
    AllReturned(r) =>
      /\ \A p \in Procs : \A k \in Params(pnet) : \A ix \in Coords(pheap[p][pnet[k]].shape) :
           At(pheap[p][pnet[k]].grad, ix) = FDivInt(RankSum(NumProcs, k, ix), NumProcs)
      /\ \A p, q \in Procs : GradOf(pheap[p], pnet) = GradOf(pheap[q], pnet)

C1_Witness ==
  /\ \E r \in 1..MaxRounds : AllReturned(r)
  /\ \E p, q \in Procs : GradOf(pheap0[p], pnet) # GradOf(pheap0[q], pnet)
  /\ \E p \in Procs : GradOf(pheap[p], pnet) # GradOf(pheap0[p], pnet)

\* C2: the all-reduce is a barrier. A worker has received the reduced
\* vector of a round, or returned from that round's call, only if all
\* NumProcs workers have contributed to the round; a worker still blocked
\* in the all-reduce has not touched its gradients; and what any two
\* workers received in the same round is the same vector.
C2_AllreduceBarrier ==
  /\ \A p \in Procs : \A r \in 1..Len(got[p]) : AllContributed(r)
  /\ \A p \in Procs : \A r \in 1..calls[p] : AllContributed(r)
  /\ \A p \in Procs : calls[p] <= Len(got[p])
  /\ \A p \in Procs : pc[p] = "allreduce" => pheap[p] = pre[p]
  /\ \A p, q \in Procs : \A r \in 1..Min(Len(got[p]), Len(got[q])) : got[p][r] = got[q][r]

C2_Witness ==
  \E p, q \in Procs :
    /\ pc[p] = "received" /\ pc[q] = "allreduce"
    /\ Len(sent[p]) = Len(sent[q])
    /\ GradOf(pheap0[p], pnet) # GradOf(pheap0[q], pnet)

\* Worker p is blocked in the all-reduce of the round that the stalled
\* worker q never enters.
BlockedOn(p, q) ==
  /\ pc[q] = "stalled"
  /\ pc[p] = "allreduce"
  /\ Len(sent[p]) = calls[q] + 1
AllEntered(r) == \A p \in Procs : Len(sent[p]) >= r
AllDone(r) == \A p \in Procs : calls[p] >= r

\* C3: there is no timeout or partial result. A worker that has stalled
\* before a call never makes it; no worker then receives or returns from
\* the round the stalled worker never enters, and a worker blocked in that
\* round's all-reduce is still blocked in it in every later state. And,
\* the workers being scheduled fairly, once all NumProcs workers have
\* entered a round's call all of them return from it.
C3_BlockedOrAllReturn ==
  /\ [][\A q \in Procs : pc[q] = "stalled" => pc[q]' = "stalled" /\ sent[q]' = sent[q]]_vars
  /\ [](\A p, q \in Procs :
          pc[q] = "stalled" => (calls[p] <= calls[q] /\ Len(got[p]) <= calls[q]))
  /\ [][\A p, q \in Procs : BlockedOn(p, q) => BlockedOn(p, q)']_vars
  /\ \A r \in 1..MaxRounds : AllEntered(r) ~> AllDone(r)

C3_Witness ==
  \E p, q \in Procs : BlockedOn(p, q) /\ calls[q] >= 1

\* C10: sync_grads writes gradient buffers only. Every worker's parameter
\* values, shapes and requires_grad flags are what they were at the start,
\* after any number of calls; so replicas that started with identical
\* values still have identical values.
C10_SyncKeepsValues ==
  /\ \A p \in Procs : \A k \in Params(pnet) :
       /\ pheap[p][pnet[k]].data = pheap0[p][pnet[k]].data
       /\ pheap[p][pnet[k]].shape = pheap0[p][pnet[k]].shape
       /\ pheap[p][pnet[k]].requires_grad = pheap0[p][pnet[k]].requires_grad
  /\ (\A p, q \in Procs : DataOf(pheap0[p], pnet) = DataOf(pheap0[q], pnet))
       => \A p, q \in Procs : DataOf(pheap[p], pnet) = DataOf(pheap[q], pnet)

C10_Witness ==
  /\ \A p, q \in Procs : DataOf(pheap0[p], pnet) = DataOf(pheap0[q], pnet)
  /\ \A p \in Procs : calls[p] >= 1 /\ GradOf(pheap[p], pnet) # GradOf(pheap0[p], pnet)

\* ------------------------------------------------------- vectorizer claims
\* The module a call named: the live network or the target.
LastNet == Net(last.which)
IsCall(op) == last.op = op

\* Element (k, ix) of a module's chosen buffer sits at this 1-based
\* position of the module's flat vector.
VecPos(h, net, k, ix) == Offset(h, net, k) + FlatPos(h[net[k]].shape, ix) + 1

\* C4: round trip. A vec_to_params in mode 'params' whose vector is
\* params_to_vec(m, 'params') of a module m, applied to a structurally
\* identical module m' (the other module, or m itself), succeeds and
\* leaves every parameter of m' with the values of the corresponding
\* parameter of m; with m' = m nothing changes.
C4_RoundTrip ==
  (IsCall("vec_to_params") /\ last.mode = "params") =>
    \A src \in Whiches :
      last.input = ParamsToVec(last.pre, Net(src), "params").vec =>
        /\ err = "none"
        /\ \A k \in Params(LastNet) : \A ix \in Coords(heap[LastNet[k]].shape) :
             At(heap[LastNet[k]].data, ix) = At(last.pre[Net(src)[k]].data, ix)

C4_Witness ==
  /\ IsCall("vec_to_params") /\ last.mode = "params" /\ last.which = "target"
  /\ last.input = ParamsToVec(last.pre, network, "params").vec
  /\ DataOf(last.pre, target) # DataOf(last.pre, network)
  /\ DataOf(heap, target) = DataOf(heap, network)

\* C9: params_to_vec returns the chosen buffers (values in mode 'params',
\* gradients otherwise) concatenated in enumeration order, row-major within
\* a parameter, so its length is the sum of the element counts; a
\* vec_to_params that completes has read the same positions into the same
\* elements and its read pointer has ended at that sum.
C9_FlatLayout ==
  /\ (IsCall("params_to_vec") /\ err = "none") =>
       /\ HasBuffers(heap, LastNet, last.mode)
       /\ Len(vec) = TotalNumel(heap, LastNet)
       /\ \A k \in Params(LastNet) : \A ix \in Coords(heap[LastNet[k]].shape) :
            vec[VecPos(heap, LastNet, k, ix)]
              = At(IF last.mode = "params" THEN heap[LastNet[k]].data ELSE heap[LastNet[k]].grad, ix)
  /\ (IsCall("vec_to_params") /\ err = "none") =>
       /\ param_pointer = TotalNumel(heap, LastNet)
       /\ \A k \in Params(LastNet) : \A ix \in Coords(heap[LastNet[k]].shape) :
            At(IF last.mode = "params" THEN heap[LastNet[k]].data ELSE heap[LastNet[k]].grad, ix)
              = last.input[VecPos(heap, LastNet, k, ix)]

C9_Witness ==
  /\ IsCall("vec_to_params") /\ err = "none" /\ last.mode = "grads"
  /\ vec # << >> /\ last.input = vec
  /\ param_pointer = Len(vec)
  /\ GradOf(heap, network) # GradOf(last.pre, network)

\* C8 as claimed: a vec_to_params whose vector's length differs from the
\* module's total element count, shorter or longer, raises an error.
C8_WrongLengthFails ==
  (IsCall("vec_to_params") /\ Len(last.input) # TotalNumel(last.pre, LastNet)) => err # "none"

\* C8 as amended: a shorter vector raises an error (view_as's, at the first
\* parameter whose slice is short, the parameters before it already
\* overwritten); a longer vector on a module whose buffers exist completes
\* without error, having copied the leading elements and ignored the rest.
C8_ShortFailsLongCompletes ==
  IsCall("vec_to_params") =>
    /\ Len(last.input) < TotalNumel(last.pre, LastNet) =>
         /\ err # "none"
         /\ HasBuffers(last.pre, LastNet, last.mode) => err = "RuntimeError"
    /\ (Len(last.input) > TotalNumel(last.pre, LastNet) /\ HasBuffers(last.pre, LastNet, last.mode)) =>
         /\ err = "none"
         /\ param_pointer = TotalNumel(last.pre, LastNet)
         /\ ParamsToVec(heap, LastNet, last.mode).vec
              = SubSeq(last.input, 1, TotalNumel(last.pre, LastNet))

C8_Witness ==
  /\ IsCall("vec_to_params") /\ last.mode = "params"
  /\ Len(last.input) > TotalNumel(last.pre, LastNet)
  /\ err = "none"
  /\ DataOf(heap, LastNet) # DataOf(last.pre, LastNet)

\* ---------------------------------------------------- target-network claims
\* C5: deep-copy isolation. Right after create_target_network the target is
\* made of new Parameter objects, none shared with the source, whose values
\* are the source's and which are all non-trainable; a target's parameters
\* are never trainable; and a call that writes the source network
\* (vec_to_params on it in either mode, sync_grads) or only reads leaves
\* every target parameter as it was.
C5_DeepCopyIsolation ==
  /\ IsCall("create") =>
       /\ Len(target) = Len(network)
       /\ \A k \in Params(target) : \A j \in Params(network) : target[k] # network[j]
       /\ \A k \in Params(target) : heap[target[k]].data = last.pre[network[k]].data
  /\ \A k \in Params(target) : ~heap[target[k]].requires_grad
  /\ (last.op \in {"vec_to_params", "sync_grads", "params_to_vec"} /\ last.which = "net") =>
       \A k \in Params(target) : heap[target[k]] = last.pre[target[k]]

\* The target was created in this behaviour (on top of the one the behaviour
\* started with) and the source then overwritten.
C5_Witness ==
  /\ IsCall("vec_to_params") /\ last.which = "net" /\ last.mode = "params" /\ err = "none"
  /\ Len(heap) = 3 * Len(network) /\ target = AddrsFrom(2 * Len(network), Len(network))
  /\ DataOf(heap, network) # DataOf(last.pre, network)
  /\ DataOf(heap, target) = DataOf(last.pre, network)

\* C6 as claimed: update_target_network with polyak_factor = 1 leaves every
\* target value unchanged, whatever the source network's values.
C6_TauOneFreezes ==
  (IsCall("update") /\ last.tau = TauDen) =>
    \A k \in Params(target) : heap[target[k]].data = last.pre[target[k]].data

\* C6 as amended: it does so whenever every source value is finite (0 * inf
\* and 0 * NaN are NaN, which the sum then puts into the target), on every
\* call of any sequence of calls.
C6_TauOneFreezesFiniteSource ==
  (IsCall("update") /\ last.tau = TauDen /\ AllFinite(last.pre, network)) =>
    \A k \in Params(target) : heap[target[k]].data = last.pre[target[k]].data

C6_Witness ==
  /\ IsCall("update") /\ last.tau = TauDen /\ steps = 2
  /\ AllFinite(last.pre, network)
  /\ DataOf(last.pre, target) # DataOf(last.pre, network)
  /\ DataOf(heap, target) = DataOf(last.pre, target)

\* C7 as claimed: update_target_network with polyak_factor = 0 makes every
\* target parameter equal to the source parameter paired with it, whatever
\* the target held before, and does not change the source.
C7_TauZeroCopies ==
  (IsCall("update") /\ last.tau = 0) =>
    /\ \A k \in Params(target) : heap[target[k]].data = last.pre[network[k]].data
    /\ \A k \in Params(network) : heap[network[k]] = last.pre[network[k]]

\* C7 as amended: it does so whenever every previous target value is finite
\* (0 * inf and 0 * NaN are NaN); the source is unchanged in every case.
C7_TauZeroCopiesFiniteTarget ==
  (IsCall("update") /\ last.tau = 0) =>
    /\ AllFinite(last.pre, target) =>
         \A k \in Params(target) : heap[target[k]].data = last.pre[network[k]].data
    /\ \A k \in Params(network) : heap[network[k]] = last.pre[network[k]]

C7_Witness ==
  /\ IsCall("update") /\ last.tau = 0
  /\ AllFinite(last.pre, target)
  /\ DataOf(last.pre, target) # DataOf(last.pre, network)
  /\ DataOf(heap, target) = DataOf(heap, network)
====
